---- MODULE Spec2Model ----
(***************************************************************************)
(* A model of streamlit_app.py: the streaming reader                       *)
(* EnhancedAPIClient.stream_completion (a generator), the one-shot reader  *)
(* EnhancedAPIClient.generate_video, their callers in EngineeringTutor     *)
(* (render_interactive_mode, render_video_mode), and the ExpiringCache of  *)
(* the specification.                                                      *)
(*                                                                         *)
(* A raw line of the HTTP body is modelled as the sequence of its JSON     *)
(* lexemes; json.loads / orjson.loads is the recursive-descent parser      *)
(* Loads below, and Python's subscripting, `in` and dict.get are modelled  *)
(* with the exceptions they raise.                                         *)
(***************************************************************************)
EXTENDS Integers, Sequences, FiniteSets, TLC

(* ------------------------------ bounds --------------------------------- *)

\* longest response body (number of lines the remote sends before closing)
MaxLines == 3

\* number of requests (prompts submitted, "Generate Video" clicks) in one
\* behaviour
MaxRequests == 1

\* number of clock advances in one behaviour of the cache
MaxTicks == 3

\* number of put operations in one behaviour of the cache
MaxPuts == 2

(* ------------------------- JSON values --------------------------------- *)

\* Every JSON value has the same four fields, so that any two are comparable.
JStr(s) == [type |-> "str", s |-> s, keys |-> <<>>, items |-> <<>>]

JNum(s) == [type |-> "num", s |-> s, keys |-> <<>>, items |-> <<>>]

\* true, false, null (Python True, False, None)
JLit(s) == [type |-> s, s |-> "", keys |-> <<>>, items |-> <<>>]

JArr(items) == [type |-> "arr", s |-> "", keys |-> <<>>, items |-> items]

\* a dict: keys[i] maps to items[i]
JObj(keys, items) == [type |-> "obj", s |-> "", keys |-> keys, items |-> items]

JNone == JLit("null")

(* ------------------------- lexemes of a line --------------------------- *)

P(v) == [k |-> "punct", v |-> v]

S(v) == [k |-> "str", v |-> v]

N(v) == [k |-> "num", v |-> v]

L(v) == [k |-> "lit", v |-> v]

\* bare text that is no JSON lexeme, such as the words of `not json`
W(v) == [k |-> "word", v |-> v]

(* ------------------------- json.loads ---------------------------------- *)

ParseFail == [ok |-> FALSE, val |-> JNone, rest |-> <<>>]

ParseOk(val, rest) == [ok |-> TRUE, val |-> val, rest |-> rest]

IsPunct(ts, v) == ts # <<>> /\ Head(ts).k = "punct" /\ Head(ts).v = v

RECURSIVE ParseValue(_), ParseMembers(_, _, _), ParseElements(_, _)

\* the members of an object after "{" or ",": string ":" value, then "," or "}"
ParseMembers(ts, keys, items) ==
    IF ts = <<>> \/ Head(ts).k # "str" \/ ~IsPunct(Tail(ts), ":")
    THEN ParseFail
    ELSE LET r == ParseValue(Tail(Tail(ts))) IN
         IF ~r.ok THEN ParseFail
         ELSE LET ks == Append(keys, Head(ts).v)
                  vs == Append(items, r.val)
              IN  IF IsPunct(r.rest, ",") THEN ParseMembers(Tail(r.rest), ks, vs)
                  ELSE IF IsPunct(r.rest, "}") THEN ParseOk(JObj(ks, vs), Tail(r.rest))
                  ELSE ParseFail

\* the elements of an array after "[" or ",": value, then "," or "]"
ParseElements(ts, items) ==
    LET r == ParseValue(ts) IN
    IF ~r.ok THEN ParseFail
    ELSE LET vs == Append(items, r.val) IN
         IF IsPunct(r.rest, ",") THEN ParseElements(Tail(r.rest), vs)
         ELSE IF IsPunct(r.rest, "]") THEN ParseOk(JArr(vs), Tail(r.rest))
         ELSE ParseFail

ParseValue(ts) ==
    IF ts = <<>> THEN ParseFail
    ELSE LET t == Head(ts) IN
         CASE t.k = "str" -> ParseOk(JStr(t.v), Tail(ts))
           [] t.k = "num" -> ParseOk(JNum(t.v), Tail(ts))
           [] t.k = "lit" -> ParseOk(JLit(t.v), Tail(ts))
           [] IsPunct(ts, "{") ->
                IF IsPunct(Tail(ts), "}") THEN ParseOk(JObj(<<>>, <<>>), Tail(Tail(ts)))
                ELSE ParseMembers(Tail(ts), <<>>, <<>>)
           [] IsPunct(ts, "[") ->
                IF IsPunct(Tail(ts), "]") THEN ParseOk(JArr(<<>>), Tail(Tail(ts)))
                ELSE ParseElements(Tail(ts), <<>>)
           [] OTHER -> ParseFail

\* json.loads(line): one value and nothing after it, else JSONDecodeError
Loads(line) ==
    LET r == ParseValue(line) IN
    IF r.ok /\ r.rest = <<>> THEN [ok |-> TRUE, val |-> r.val]
    ELSE [ok |-> FALSE, val |-> JNone]

(* ------------------------- Python on JSON values ----------------------- *)

\* the result of evaluating an expression: a value, or the exception raised
Val(v) == [exc |-> "none", val |-> v]

Raise(e) == [exc |-> e, val |-> JNone]

\* the index of the last occurrence of key in a dict (a repeated key keeps the
\* last value), 0 when absent
LastIndex(obj, key) ==
    LET hits == {i \in 1..Len(obj.keys) : obj.keys[i] = key} IN
    IF hits = {} THEN 0 ELSE CHOOSE i \in hits : \A j \in hits : j <= i

\* `key in v`
Contains(v, key) ==
    CASE v.type = "obj" -> Val(JLit(IF LastIndex(v, key) # 0 THEN "true" ELSE "false"))
      [] v.type = "arr" ->
            Val(JLit(IF \E i \in 1..Len(v.items) : v.items[i] = JStr(key)
                     THEN "true" ELSE "false"))
      \* substring test; no string of the model properly contains a key
      [] v.type = "str" -> Val(JLit(IF v.s = key THEN "true" ELSE "false"))
      [] OTHER -> Raise("TypeError")

\* v[key] for a string key
GetItem(v, key) ==
    CASE v.type = "obj" ->
            IF LastIndex(v, key) # 0 THEN Val(v.items[LastIndex(v, key)])
            ELSE Raise("KeyError")
      [] OTHER -> Raise("TypeError")

\* v[0]
GetFirst(v) ==
    CASE v.type = "arr" -> IF v.items # <<>> THEN Val(v.items[1]) ELSE Raise("IndexError")
      [] v.type = "obj" -> Raise("KeyError")
      [] v.type = "str" -> IF v.s # "" THEN Val(v) ELSE Raise("IndexError")
      [] OTHER -> Raise("TypeError")

\* v.get(key, "")
GetOrEmpty(v, key) ==
    CASE v.type = "obj" ->
            IF LastIndex(v, key) # 0 THEN Val(v.items[LastIndex(v, key)])
            ELSE Val(JStr(""))
      [] OTHER -> Raise("AttributeError")

\* bool(v): Python truthiness
Truthy(v) ==
    CASE v.type = "str" -> v.s # ""
      [] v.type = "num" -> v.s # "0"
      [] v.type = "arr" -> v.items # <<>>
      [] v.type = "obj" -> v.keys # <<>>
      [] OTHER -> v.type = "true"

(* ------------------------- response bodies ----------------------------- *)

Braces(ts) == <<P("{")>> \o ts \o <<P("}")>>

Brackets(ts) == <<P("[")>> \o ts \o <<P("]")>>

Field(name, ts) == <<S(name), P(":")>> \o ts

\* {"choices":[{"delta": <delta>}]}
ChoicesLine(delta) == Braces(Field("choices", Brackets(Braces(Field("delta", delta)))))

\* {"data":[{"url": "<url>"}]}
DataLine(url) == Braces(Field("data", Brackets(Braces(Field("url", <<S(url)>>)))))

\* a blank keep-alive line
LineEmpty == <<>>

LineHel == ChoicesLine(Braces(Field("content", <<S("Hel")>>)))

LineLo == ChoicesLine(Braces(Field("content", <<S("lo")>>)))

\* {"choices":[{"delta":{}}]}: the closing chunk of a reply, no content field
LineNoContent == ChoicesLine(Braces(<<>>))

\* {"choices":[{"delta":{"content":null}}]}
LineNullContent == ChoicesLine(Braces(Field("content", <<L("null")>>)))

\* {"usage":{"total_tokens":7}}: token counts, no "choices" field
LineUsage == Braces(Field("usage", Braces(Field("total_tokens", <<N("7")>>))))

\* {"choices":[],"usage":{"total_tokens":7}}: token counts beside an empty
\* "choices" array, the usage chunk of stream_options.include_usage
LineUsageNoChoice ==
    Braces(Field("choices", Brackets(<<>>)) \o <<P(",")>>
           \o Field("usage", Braces(Field("total_tokens", <<N("7")>>))))

\* not json
LineNotJson == <<W("not"), W("json")>>

\* {"foo":1}
LineFoo == Braces(Field("foo", <<N("1")>>))

LineDataX == DataLine("http://x/video.mp4")

LineDataY == DataLine("http://y")

\* {"data":[]}
LineDataNone == Braces(Field("data", Brackets(<<>>)))

\* 1
LineNumber == <<N("1")>>

\* the lines the chat endpoint may send
ChatLines ==
    {LineEmpty, LineHel, LineLo, LineNoContent, LineNullContent, LineUsage,
     LineUsageNoChoice, LineNotJson}

\* the lines the video endpoint may send
VideoLines ==
    {LineEmpty, LineFoo, LineDataX, LineDataY, LineDataNone, LineNotJson, LineNumber}

\* what requests.post / raise_for_status may do
Outcomes == {"ok", "ConnectionError", "HTTPError"}

Prompts == {"q"}

Topics == {"", "engine"}

(* ------------------------- the code under each line -------------------- *)

\* DeltaContent with ["content"] in place of .get("content", "")
DeltaContentStrict(chunk) ==
    LET choices == GetItem(chunk, "choices") IN
    IF choices.exc # "none" THEN choices
    ELSE LET first == GetFirst(choices.val) IN
         IF first.exc # "none" THEN first
         ELSE LET delta == GetItem(first.val, "delta") IN
              IF delta.exc # "none" THEN delta
              ELSE GetItem(delta.val, "content")

\* chunk["choices"][0]["delta"].get("content", "")
DeltaContent(chunk) ==
    LET choices == GetItem(chunk, "choices") IN
    IF choices.exc # "none" THEN choices
    ELSE LET first == GetFirst(choices.val) IN
         IF first.exc # "none" THEN first
         ELSE LET delta == GetItem(first.val, "delta") IN
              IF delta.exc # "none" THEN delta
              ELSE GetOrEmpty(delta.val, "content")

\* data["data"][0]["url"]
DataUrl(data) ==
    LET d == GetItem(data, "data") IN
    IF d.exc # "none" THEN d
    ELSE LET first == GetFirst(d.val) IN
         IF first.exc # "none" THEN first
         ELSE GetItem(first.val, "url")

Skip == [kind |-> "skip", val |-> JNone, exc |-> "none"]

Yield(v) == [kind |-> "yield", val |-> v, exc |-> "none"]

Return(v) == [kind |-> "return", val |-> v, exc |-> "none"]

Throw(e) == [kind |-> "raise", val |-> JNone, exc |-> e]

\* ChunkOutcome with the parse guarded: a line that is not JSON is skipped
ChunkOutcomeLenient(line) ==
    IF line = <<>> THEN Skip
    ELSE LET chunk == Loads(line) IN
         IF ~chunk.ok THEN Skip
         ELSE LET has == Contains(chunk.val, "choices") IN
              IF has.exc # "none" THEN Throw(has.exc)
              ELSE IF has.val.type # "true" THEN Skip
              ELSE LET content == DeltaContent(chunk.val) IN
                   IF content.exc # "none" THEN Throw(content.exc)
                   ELSE Yield(content.val)

\* ChunkOutcome with the yield outside `if "choices" in chunk`: a line
\* without "choices" yields the empty string
ChunkOutcomeEager(line) ==
    IF line = <<>> THEN Skip
    ELSE LET chunk == Loads(line) IN
         IF ~chunk.ok THEN Throw("JSONDecodeError")
         ELSE LET has == Contains(chunk.val, "choices") IN
              IF has.exc # "none" THEN Throw(has.exc)
              ELSE IF has.val.type # "true" THEN Yield(JStr(""))
              ELSE LET content == DeltaContent(chunk.val) IN
                   IF content.exc # "none" THEN Throw(content.exc)
                   ELSE Yield(content.val)

\* the body of stream_completion's loop for one line
ChunkOutcome(line) ==
    IF line = <<>> THEN Skip
    ELSE LET chunk == Loads(line) IN
         IF ~chunk.ok THEN Throw("JSONDecodeError")
         ELSE LET has == Contains(chunk.val, "choices") IN
              IF has.exc # "none" THEN Throw(has.exc)
              ELSE IF has.val.type # "true" THEN Skip
              ELSE LET content == DeltaContent(chunk.val) IN
                   IF content.exc # "none" THEN Throw(content.exc)
                   ELSE Yield(content.val)

\* the body of generate_video's loop for one line
VideoOutcome(line) ==
    IF line = <<>> THEN Skip
    ELSE LET data == Loads(line) IN
         IF ~data.ok THEN Throw("JSONDecodeError")
         ELSE LET has == Contains(data.val, "data") IN
              IF has.exc # "none" THEN Throw(has.exc)
              ELSE IF has.val.type # "true" THEN Skip
              ELSE LET url == DataUrl(data.val) IN
                   IF url.exc # "none" THEN Throw(url.exc)
                   ELSE Return(url.val)

\* RaiseForStatus with raise_for_status() left out and the failure swallowed
NoRaiseForStatus(outcome) == "none"

\* requests.post followed by response.raise_for_status(): the exception
\* raised, "none" when the body may be read
RaiseForStatus(outcome) == IF outcome = "ok" THEN "none" ELSE outcome

\* NoVideo with the final `return ""` left out: the function returns None
NoVideoNone == JNone

\* the value generate_video returns when the body ends without a "data" line
NoVideo == JStr("")

SystemMessage ==
    [role |-> "system", content |-> "You are an interactive engineering tutor."]

\* st.session_state.messages after the `if "messages" not in st.session_state`
InitMessages(ms) == IF ms = <<>> THEN <<SystemMessage>> ELSE ms

(* ------------------------- state --------------------------------------- *)

VARIABLES
    messages,       \* st.session_state.messages; <<>> while the key is not set
    run,            \* the script run: "idle", "interactive", "video"
    gen_pc,         \* the generator stream_completion: "none", "created",
                    \* "running", "suspended" (at the yield), "done", "raised"
    vid_pc,         \* the call of generate_video: "none", "called", "running",
                    \* "returned", "raised"
    status,         \* what the request of the current call did: "none" or an Outcomes
    posts,          \* requests.post calls made by the current call
    consumed,       \* the lines iter_lines has handed out so far, in order
    reads,          \* lines read since the generator was last resumed
    yielded,        \* the values the generator has yielded so far, in order
    err,            \* the exception the current call raised, "none" if none
    full_response,  \* render_interactive_mode's accumulator
    video_url,      \* the value generate_video returned
    shown,          \* what the page shows for the last request
    requests,       \* prompts submitted and "Generate Video" clicks so far
    store,          \* ExpiringCache: key -> entry
    disk,           \* ExpiringCache: the persisted document
    now,            \* the clock, in seconds
    got,            \* the result of the last cache operation
    last_put,       \* per key, the value and time of the most recent put
    ticks,          \* clock advances so far
    puts            \* put operations so far

appVars ==
    <<messages, run, gen_pc, vid_pc, status, posts, consumed, reads, yielded, err,
      full_response, video_url, shown, requests>>

cacheVars == <<store, disk, now, got, last_put, ticks, puts>>

vars == <<appVars, cacheVars>>

(* ------------------------- initial state -------------------------------- *)

NoEntry == [present |-> FALSE, value |-> "", stored_at |-> 0]

Keys == {"text_Bernoulli_Beginner", "audio_Bernoulli_Beginner"}

Values == {"Bernoulli states...", "other"}

\* time-to-live of a cache entry, in seconds
TTL == 86400

\* the clock advances by a second or by a second less than the TTL
TickSizes == {1, TTL - 1}

AppInit ==
    /\ messages = <<>>
    /\ run = "idle"
    /\ gen_pc = "none"
    /\ vid_pc = "none"
    /\ status = "none"
    /\ posts = 0
    /\ consumed = <<>>
    /\ reads = 0
    /\ yielded = <<>>
    /\ err = "none"
    /\ full_response = ""
    /\ video_url = JNone
    /\ shown = "nothing"
    /\ requests = 0

CacheInit ==
    /\ store = [k \in Keys |-> NoEntry]
    /\ disk = [k \in Keys |-> NoEntry]
    /\ now = 0
    /\ got = [op |-> "none", key |-> "", present |-> FALSE, value |-> ""]
    /\ last_put = [k \in Keys |-> NoEntry]
    /\ ticks = 0
    /\ puts = 0

Init == AppInit /\ CacheInit

(* ------------------------- stream_completion ---------------------------- *)

\* the generator and the response are dropped when their caller is left
DropCall ==
    /\ gen_pc' = "none"
    /\ vid_pc' = "none"
    /\ status' = "none"
    /\ posts' = 0
    /\ consumed' = <<>>
    /\ reads' = 0
    /\ yielded' = <<>>
    /\ err' = "none"

\* the first next() on the generator: the payload is built, the request is
\* posted and its status checked
GenStart(outcome) ==
    /\ gen_pc = "created"
    /\ posts' = posts + 1
    /\ status' = outcome
    /\ err' = RaiseForStatus(outcome)
    /\ gen_pc' = IF RaiseForStatus(outcome) = "none" THEN "running" ELSE "raised"
    /\ reads' = 0
    /\ UNCHANGED <<messages, run, vid_pc, consumed, yielded, full_response,
                   video_url, shown, requests>>
    /\ UNCHANGED cacheVars

\* one turn of `for line in response.iter_lines()`: the next line arrives
ReadLine(line) ==
    /\ gen_pc = "running"
    /\ Len(consumed) < MaxLines
    /\ consumed' = Append(consumed, line)
    /\ reads' = reads + 1
    /\ LET o == ChunkOutcome(line) IN
         /\ gen_pc' = CASE o.kind = "yield" -> "suspended"
                        [] o.kind = "raise" -> "raised"
                        [] OTHER -> "running"
         /\ yielded' = IF o.kind = "yield" THEN Append(yielded, o.val) ELSE yielded
         /\ err' = o.exc
    /\ UNCHANGED <<messages, run, vid_pc, status, posts, full_response, video_url,
                   shown, requests>>
    /\ UNCHANGED cacheVars

\* EndOfStream with the body iterated again from its start instead of returning
EndOfStreamRestarts ==
    /\ gen_pc = "running"
    /\ consumed # <<>>
    /\ consumed' = <<>>
    /\ UNCHANGED <<messages, run, gen_pc, vid_pc, status, posts, reads, yielded,
                   err, full_response, video_url, shown, requests>>
    /\ UNCHANGED cacheVars

\* the remote closes the connection: iter_lines is exhausted, the generator
\* returns
EndOfStream ==
    /\ gen_pc = "running"
    /\ gen_pc' = "done"
    /\ UNCHANGED <<messages, run, vid_pc, status, posts, consumed, reads, yielded,
                   err, full_response, video_url, shown, requests>>
    /\ UNCHANGED cacheVars

(* ------------------------- render_interactive_mode ---------------------- *)

\* a script run of the interactive mode with no prompt entered
RenderInteractive ==
    /\ run = "idle"
    /\ messages' = InitMessages(messages)
    /\ UNCHANGED <<run, gen_pc, vid_pc, status, posts, consumed, reads, yielded,
                   err, full_response, video_url, shown, requests>>
    /\ UNCHANGED cacheVars

\* a prompt is entered: the user message is appended and stream_completion is
\* called, which creates the generator and runs none of it
SubmitPrompt(prompt) ==
    /\ run = "idle"
    /\ requests < MaxRequests
    /\ requests' = requests + 1
    /\ messages' = Append(InitMessages(messages), [role |-> "user", content |-> prompt])
    /\ run' = "interactive"
    /\ full_response' = ""
    /\ shown' = "nothing"
    /\ gen_pc' = "created"
    /\ vid_pc' = "none"
    /\ status' = "none"
    /\ posts' = 0
    /\ consumed' = <<>>
    /\ reads' = 0
    /\ yielded' = <<>>
    /\ err' = "none"
    /\ UNCHANGED video_url
    /\ UNCHANGED cacheVars

\* the body of `for chunk in ...` for the chunk just yielded, and the next()
\* that resumes the generator; adding a non-string to a string raises
Consume ==
    /\ run = "interactive"
    /\ gen_pc = "suspended"
    /\ LET chunk == yielded[Len(yielded)] IN
         IF chunk.type = "str"
         THEN /\ full_response' = full_response \o chunk.s
              /\ gen_pc' = "running"
              /\ reads' = 0
              /\ UNCHANGED <<run, shown, vid_pc, status, posts, consumed, yielded, err>>
         ELSE /\ run' = "idle"
              /\ shown' = "exception"
              /\ full_response' = ""
              /\ DropCall
    /\ UNCHANGED <<messages, video_url, requests>>
    /\ UNCHANGED cacheVars

\* the loop ends: the reply is shown and appended to the history
FinishReply ==
    /\ run = "interactive"
    /\ gen_pc = "done"
    /\ messages' = Append(messages, [role |-> "assistant", content |-> full_response])
    /\ run' = "idle"
    /\ shown' = "reply"
    /\ full_response' = ""
    /\ DropCall
    /\ UNCHANGED <<video_url, requests>>
    /\ UNCHANGED cacheVars

\* the generator raised: nothing in render_interactive_mode or run catches it,
\* the script run ends there
AbortRun ==
    /\ run = "interactive"
    /\ gen_pc = "raised"
    /\ run' = "idle"
    /\ shown' = "exception"
    /\ full_response' = ""
    /\ DropCall
    /\ UNCHANGED <<messages, video_url, requests>>
    /\ UNCHANGED cacheVars

(* ------------------------- generate_video, render_video_mode ------------ *)

\* the "Generate Video" button: an empty topic is refused, otherwise
\* generate_video is called
ClickGenerate(topic) ==
    /\ run = "idle"
    /\ requests < MaxRequests
    /\ requests' = requests + 1
    /\ video_url' = JNone
    /\ IF topic = ""
       THEN /\ shown' = "Please enter a topic!"
            /\ UNCHANGED <<run, gen_pc, vid_pc, status, posts, consumed, reads,
                           yielded, err>>
       ELSE /\ shown' = "nothing"
            /\ run' = "video"
            /\ vid_pc' = "called"
            /\ gen_pc' = "none"
            /\ status' = "none"
            /\ posts' = 0
            /\ consumed' = <<>>
            /\ reads' = 0
            /\ yielded' = <<>>
            /\ err' = "none"
    /\ UNCHANGED <<messages, full_response>>
    /\ UNCHANGED cacheVars

\* the request is posted and its status checked
VideoPost(outcome) ==
    /\ vid_pc = "called"
    /\ posts' = posts + 1
    /\ status' = outcome
    /\ err' = RaiseForStatus(outcome)
    /\ vid_pc' = IF RaiseForStatus(outcome) = "none" THEN "running" ELSE "raised"
    /\ UNCHANGED <<messages, run, gen_pc, consumed, reads, yielded, full_response,
                   video_url, shown, requests>>
    /\ UNCHANGED cacheVars

\* VideoReadLine with the URL remembered instead of returned: the loop goes on
VideoReadLineKeepsReading(line) ==
    /\ vid_pc = "running"
    /\ Len(consumed) < MaxLines
    /\ consumed' = Append(consumed, line)
    /\ LET o == VideoOutcome(line) IN
         /\ vid_pc' = IF o.kind = "raise" THEN "raised" ELSE "running"
         /\ video_url' = IF o.kind = "return" THEN o.val ELSE video_url
         /\ err' = o.exc
    /\ UNCHANGED <<messages, run, gen_pc, status, posts, reads, yielded,
                   full_response, shown, requests>>
    /\ UNCHANGED cacheVars

\* one turn of `for line in response.iter_lines()`
VideoReadLine(line) ==
    /\ vid_pc = "running"
    /\ Len(consumed) < MaxLines
    /\ consumed' = Append(consumed, line)
    /\ LET o == VideoOutcome(line) IN
         /\ vid_pc' = CASE o.kind = "return" -> "returned"
                        [] o.kind = "raise" -> "raised"
                        [] OTHER -> "running"
         /\ video_url' = IF o.kind = "return" THEN o.val ELSE video_url
         /\ err' = o.exc
    /\ UNCHANGED <<messages, run, gen_pc, status, posts, reads, yielded,
                   full_response, shown, requests>>
    /\ UNCHANGED cacheVars

\* iter_lines is exhausted: return ""
VideoEndOfStream ==
    /\ vid_pc = "running"
    /\ vid_pc' = "returned"
    /\ video_url' = NoVideo
    /\ UNCHANGED <<messages, run, gen_pc, status, posts, consumed, reads, yielded,
                   err, full_response, shown, requests>>
    /\ UNCHANGED cacheVars

\* render_video_mode after the call: the video, or one of the two errors
VideoShow ==
    /\ run = "video"
    /\ vid_pc \in {"returned", "raised"}
    /\ shown' = IF vid_pc = "raised" THEN "Error generating video"
                ELSE IF Truthy(video_url) THEN "video"
                ELSE "Video generation failed. Please try again."
    /\ run' = "idle"
    /\ video_url' = JNone
    /\ DropCall
    /\ UNCHANGED <<messages, full_response, requests>>
    /\ UNCHANGED cacheVars

(* ------------------------- ExpiringCache -------------------------------- *)

\* Fresh with <= in place of <
FreshInclusive(entry, t) == entry.present /\ t - entry.stored_at <= TTL

\* whether an entry is served at time t
Fresh(entry, t) == entry.present /\ t - entry.stored_at < TTL

\* get(key): the stored value while fresh, else absent; nothing is changed
CacheGet(key) ==
    /\ got' = IF Fresh(store[key], now)
              THEN [op |-> "get", key |-> key, present |-> TRUE,
                    value |-> store[key].value]
              ELSE [op |-> "get", key |-> key, present |-> FALSE, value |-> ""]
    /\ UNCHANGED <<store, disk, now, last_put, ticks, puts>>
    /\ UNCHANGED appVars

\* put(key, value): the entry is overwritten in memory, then the whole store
\* is written out, which may fail with IOFailure
CachePut(key, value, written) ==
    /\ puts < MaxPuts
    /\ puts' = puts + 1
    /\ store' = [store EXCEPT ![key] =
                    [present |-> TRUE, value |-> value, stored_at |-> now]]
    /\ disk' = IF written THEN store' ELSE disk
    /\ last_put' = [last_put EXCEPT ![key] =
                    [present |-> TRUE, value |-> value, stored_at |-> now]]
    /\ got' = [op |-> IF written THEN "put" ELSE "IOFailure", key |-> key,
               present |-> FALSE, value |-> ""]
    /\ UNCHANGED <<now, ticks>>
    /\ UNCHANGED appVars

\* time passes
Tick(d) ==
    /\ ticks < MaxTicks
    /\ ticks' = ticks + 1
    /\ now' = now + d
    /\ UNCHANGED <<store, disk, got, last_put, puts>>
    /\ UNCHANGED appVars

(* ------------------------- specifications ------------------------------- *)

Next ==
    \/ RenderInteractive
    \/ \E prompt \in Prompts : SubmitPrompt(prompt)
    \/ \E outcome \in Outcomes : GenStart(outcome)
    \/ \E line \in ChatLines : ReadLine(line)
    \/ EndOfStream
    \/ Consume
    \/ FinishReply
    \/ AbortRun
    \/ \E topic \in Topics : ClickGenerate(topic)
    \/ \E outcome \in Outcomes : VideoPost(outcome)
    \/ \E line \in VideoLines : VideoReadLine(line)
    \/ VideoEndOfStream
    \/ VideoShow

Spec == Init /\ [][Next]_vars

\* The script is one thread of straight-line code: a started request runs on
\* until its handler is left, and the remote sends a next line or closes.
Progress ==
    \/ \E outcome \in Outcomes : GenStart(outcome)
    \/ \E line \in ChatLines : ReadLine(line)
    \/ EndOfStream
    \/ Consume
    \/ FinishReply
    \/ AbortRun

FairSpec == Spec /\ WF_vars(Progress)

CacheNext ==
    \/ \E key \in Keys : CacheGet(key)
    \/ \E key \in Keys, value \in Values, written \in BOOLEAN : CachePut(key, value, written)
    \/ \E d \in TickSizes : Tick(d)

CacheSpec == Init /\ [][CacheNext]_vars

(* ------------------------- the vocabulary of the claims ----------------- *)

\* json.loads of every line a body may hold
DocOf == [line \in ChatLines \cup VideoLines |-> Loads(line)]

\* the line is not empty and is a JSON object
IsObject(line) == line # <<>> /\ DocOf[line].ok /\ DocOf[line].val.type = "obj"

\* the line is a JSON object with a field f
HasField(line, f) ==
    /\ IsObject(line)
    /\ \E i \in 1..Len(DocOf[line].val.keys) : DocOf[line].val.keys[i] = f

\* the value of field f of an object that has it
FieldOf(obj, f) == obj.items[CHOOSE i \in 1..Len(obj.keys) : obj.keys[i] = f]

HasKey(obj, f) == obj.type = "obj" /\ \E i \in 1..Len(obj.keys) : obj.keys[i] = f

\* the line is not empty and is not JSON
Malformed(line) == line # <<>> /\ ~DocOf[line].ok

\* a line with "choices" whose first choice has a delta object
HasDelta(line) ==
    /\ HasField(line, "choices")
    /\ LET choices == FieldOf(DocOf[line].val, "choices") IN
         /\ choices.type = "arr"
         /\ choices.items # <<>>
         /\ HasKey(choices.items[1], "delta")
         /\ FieldOf(choices.items[1], "delta").type = "obj"

\* the delta of the first choice
DeltaOf(line) == FieldOf(FieldOf(DocOf[line].val, "choices").items[1], "delta")

\* a well-formed line: empty, an object without "choices", or a chat chunk
\* whose content, when there is one, is a string
WellFormed(line) ==
    \/ line = <<>>
    \/ IsObject(line) /\ ~HasField(line, "choices")
    \/ HasDelta(line)
         /\ (HasKey(DeltaOf(line), "content")
                => FieldOf(DeltaOf(line), "content").type = "str")

\* what a line with "choices" is to yield: its content, the empty string when
\* it has none
DeltaText(line) ==
    IF HasDelta(line) /\ HasKey(DeltaOf(line), "content")
    THEN FieldOf(DeltaOf(line), "content")
    ELSE JStr("")

RECURSIVE Deltas(_)

\* what a sequence of lines is to yield, in order
Deltas(lines) ==
    IF lines = <<>> THEN <<>>
    ELSE IF HasField(Head(lines), "choices")
         THEN <<DeltaText(Head(lines))>> \o Deltas(Tail(lines))
         ELSE Deltas(Tail(lines))

Front(seq) == SubSeq(seq, 1, Len(seq) - 1)

Last(seq) == seq[Len(seq)]

\* a line of token counts and no content: "usage" and no choice in it
UsageOnly(line) ==
    /\ HasField(line, "usage")
    /\ HasField(line, "choices")
         => /\ FieldOf(DocOf[line].val, "choices").type = "arr"
            /\ FieldOf(DocOf[line].val, "choices").items = <<>>

\* the generator exists
GenLive == gen_pc \in {"created", "running", "suspended", "done", "raised"}

\* generate_video is being or has been executed
VideoLive == vid_pc \in {"called", "running", "returned", "raised"}

\* the index of the first line with a "data" field
FirstData(lines) ==
    CHOOSE i \in 1..Len(lines) :
        HasField(lines[i], "data") /\ \A j \in 1..(i - 1) : ~HasField(lines[j], "data")

SomeData(lines) == \E i \in 1..Len(lines) : HasField(lines[i], "data")

\* data[0].url of a line with a "data" field, null when there is none
UrlOf(line) ==
    LET data == FieldOf(DocOf[line].val, "data") IN
    IF data.type = "arr" /\ data.items # <<>> /\ HasKey(data.items[1], "url")
    THEN FieldOf(data.items[1], "url")
    ELSE JNone

RECURSIVE Concat(_)

\* the concatenation of string deltas
Concat(ds) == IF ds = <<>> THEN "" ELSE Head(ds).s \o Concat(Tail(ds))

\* a history that starts with the system message, then alternates user,
\* assistant, and ends with a reply
WellFormedHistory(ms) ==
    \/ ms = <<>>
    \/ /\ ms[1] = SystemMessage
       /\ Len(ms) % 2 = 1
       /\ \A i \in 2..Len(ms) :
            ms[i].role = IF i % 2 = 0 THEN "user" ELSE "assistant"

(* ------------------------- C1 ------------------------------------------- *)

\* C1: over well-formed lines, stream_completion has yielded, in input order,
\* exactly one value per non-empty line whose document contains "choices":
\* the first choice's delta content, or the empty string when it has none;
\* empty lines and lines without "choices" yield nothing, and nothing raises.
C1_DecodeYieldsDeltas ==
    (GenLive /\ status = "ok" /\ \A i \in 1..Len(consumed) : WellFormed(consumed[i]))
        => /\ yielded = Deltas(consumed)
           /\ err = "none"
           /\ gen_pc # "raised"

C1_Witness ==
    /\ gen_pc = "done"
    /\ consumed = <<LineHel, LineLo>>
    /\ yielded = <<JStr("Hel"), JStr("lo")>>

(* ------------------------- C2 ------------------------------------------- *)

C2_RaisedAtMalformed ==
    (GenLive /\ consumed # <<>> /\ Malformed(Last(consumed)))
        => /\ gen_pc = "raised"
           /\ err = "JSONDecodeError"
           /\ yielded = Deltas(Front(consumed))

C2_NothingAfterRaise ==
    (gen_pc = "raised" /\ err = "JSONDecodeError")
        => /\ Len(consumed') <= Len(consumed)
           /\ Len(yielded') <= Len(yielded)
           /\ gen_pc' \in {"raised", "none"}

\* C2: a non-empty line that is not JSON makes stream_completion raise the
\* parse error (JSONDecodeError, the MalformedChunk of the specification): the
\* deltas of the earlier lines have been yielded, and after it no value is
\* yielded and no line is read.
C2_MalformedFailsFast == [](C2_RaisedAtMalformed) /\ [][C2_NothingAfterRaise]_vars

C2_Witness ==
    /\ gen_pc = "raised"
    /\ err = "JSONDecodeError"
    /\ consumed = <<LineHel, LineNotJson>>
    /\ yielded = <<JStr("Hel")>>

(* ------------------------- C3 ------------------------------------------- *)

C3_ReturnsFirstUrl ==
    (vid_pc = "returned" /\ SomeData(consumed))
        => /\ FirstData(consumed) = Len(consumed)
           /\ video_url = UrlOf(Last(consumed))

C3_NoReadAfterData ==
    (VideoLive /\ SomeData(consumed)) => Len(consumed') <= Len(consumed)

\* C3: generate_video returns data[0].url of the first non-empty line whose
\* document has a "data" field, and that line is the last one it reads.
C3_FirstDataLineWins == [](C3_ReturnsFirstUrl) /\ [][C3_NoReadAfterData]_vars

C3_Witness ==
    /\ vid_pc = "returned"
    /\ consumed = <<LineFoo, LineDataX>>
    /\ video_url = JStr("http://x/video.mp4")

(* ------------------------- C4 ------------------------------------------- *)

VideoEnded == vid_pc \in {"returned", "raised"} /\ status = "ok"

\* C4 as stated: when no line of the body has a "data" field, generate_video
\* ends with the empty string and not with an error.
C4_Original ==
    (VideoEnded /\ ~SomeData(consumed))
        => /\ vid_pc = "returned"
           /\ video_url = JStr("")
           /\ err = "none"

\* C4 as amended: when every non-empty line of the body is a JSON object and
\* none has a "data" field, generate_video ends with the empty string, once
\* the body is exhausted, and not with an error.
C4_NoDataGivesEmpty ==
    (/\ VideoEnded
     /\ \A i \in 1..Len(consumed) :
          consumed[i] = <<>> \/ (IsObject(consumed[i]) /\ ~HasField(consumed[i], "data")))
        => /\ vid_pc = "returned"
           /\ video_url = JStr("")
           /\ err = "none"

C4_Witness ==
    /\ vid_pc = "returned"
    /\ consumed = <<LineFoo, LineEmpty>>
    /\ video_url = JStr("")

(* ------------------------- C5 ------------------------------------------- *)

\* C5: a usage-only line makes stream_completion yield nothing and raise
\* nothing: after it the loop is still running, or has ended because the body
\* has.
C5_UsageOnlyLineSkipped ==
    (GenLive /\ consumed # <<>> /\ UsageOnly(Last(consumed)))
        => /\ gen_pc \in {"running", "done"}
           /\ err = "none"

(* ------------------------- C6 ------------------------------------------- *)

\* C6 as stated: a resumption that ends at a yield has read exactly one line.
C6_Original == gen_pc = "suspended" => reads = 1

C6_ReadsUpToTheYield ==
    gen_pc = "suspended"
        => /\ reads >= 1
           /\ reads <= Len(consumed)
           /\ HasField(Last(consumed), "choices")
           /\ \A i \in (Len(consumed) - reads + 1)..(Len(consumed) - 1) :
                consumed[i] = <<>> \/ (IsObject(consumed[i]) /\ ~HasField(consumed[i], "choices"))

C6_ReadsOnlyWhenResumed ==
    (GenLive /\ Len(consumed') > Len(consumed))
        => /\ gen_pc = "running"
           /\ Len(consumed') = Len(consumed) + 1
           /\ reads' = reads + 1

\* C6 as amended: the sequence is lazy, it reads lines only while resumed and
\* one at a time; a resumption that ends at a yield has read one or more
\* lines, the last of which has "choices" and the others of which are empty or
\* without "choices".
C6_LazyResumption == [](C6_ReadsUpToTheYield) /\ [][C6_ReadsOnlyWhenResumed]_vars

C6_Witness ==
    /\ gen_pc = "suspended"
    /\ reads = 2
    /\ consumed = <<LineEmpty, LineHel>>

(* ------------------------- C7 ------------------------------------------- *)

\* C7: when the request fails, the call raises to its caller and that is all
\* it does: one request was posted, no line was read, nothing was yielded and
\* no URL returned.
C7_FailedCallGivesNothing ==
    /\ posts <= 1
    /\ status \in {"ConnectionError", "HTTPError"}
        => /\ gen_pc = "raised" \/ vid_pc = "raised"
           /\ err = status
           /\ posts = 1
           /\ consumed = <<>>
           /\ yielded = <<>>
           /\ vid_pc = "raised" => video_url = JNone

C7_Witness ==
    /\ gen_pc = "raised"
    /\ status = "HTTPError"
    /\ posts = 1
    /\ consumed = <<>>

(* ------------------------- C8 ------------------------------------------- *)

C8_AtMostOnePerLine == GenLive => Len(yielded) <= Len(consumed)

C8_ForwardOnly ==
    (GenLive /\ gen_pc' # "none")
        => /\ Len(consumed) <= Len(consumed')
           /\ Len(consumed') <= Len(consumed) + 1
           /\ SubSeq(consumed', 1, Len(consumed)) = consumed
           /\ Len(yielded') - Len(yielded) <= Len(consumed') - Len(consumed)
           /\ SubSeq(yielded', 1, Len(yielded)) = yielded

C8_Terminates ==
    (gen_pc \in {"created", "running", "suspended"}) ~> (gen_pc \in {"done", "raised", "none"})

\* C8: the sequence is finite and forward-only: a started generator ends, the
\* lines read only grow, one at a time and never re-read, and there is at most
\* one yielded value per line read.
C8_FiniteForwardOnly ==
    /\ [](C8_AtMostOnePerLine)
    /\ [][C8_ForwardOnly]_vars
    /\ C8_Terminates

C8_Witness ==
    /\ gen_pc = "done"
    /\ Len(consumed) = 3
    /\ Len(yielded) = 2

(* ------------------------- C9 ------------------------------------------- *)

C9_GetStep == puts' = puts /\ ticks' = ticks

C9_GetResult ==
    C9_GetStep
        => /\ got'.op = "get"
           /\ LET e == last_put[got'.key] IN
                /\ got'.present <=> (e.present /\ now - e.stored_at < TTL)
                /\ got'.present => got'.value = e.value
           /\ store' = store
           /\ disk' = disk

\* C9: get(k) returns the value of the most recent put(k, v) exactly when
\* fewer than TTL seconds have passed since that put, and absent otherwise;
\* get changes nothing, and an expired entry stays in the store.
C9_GetWithinTTL == [](\A k \in Keys : store[k] = last_put[k]) /\ [][C9_GetResult]_vars

C9_Witness ==
    /\ got.op = "get"
    /\ ~got.present
    /\ last_put[got.key].present
    /\ now - last_put[got.key].stored_at = TTL
    /\ store[got.key].present

(* ------------------------- C10 ------------------------------------------ *)

\* C10: between script runs the history starts with the system message and
\* alternates user, assistant, with no prompt left without a reply; and the
\* reply about to be appended is the concatenation of the deltas yielded.
C10_HistoryWellFormed ==
    /\ run = "idle" => WellFormedHistory(messages)
    /\ (run = "interactive" /\ gen_pc = "done") => full_response = Concat(yielded)

====
